---- MODULE Spec2Model ----
(***************************************************************************)
(* Model of the day planner of experiments/streamlit_mvp/app_streamlit.py: *)
(* generate_plan (slot-building loop, habit insertion, task assignment)    *)
(* and the session state it is called on.                                  *)
(*                                                                         *)
(* Times are minutes since midnight of "today" (every datetime of a run    *)
(* is built with datetime.combine(today, ...)).  Task objects live in the  *)
(* sequence `tasks` (st.session_state.tasks); a list of references to      *)
(* them is a sequence of indices into `tasks`.                             *)
(* Scores are the floats of score() multiplied by 1000, which makes every  *)
(* term an integer.                                                        *)
(***************************************************************************)
EXTENDS Integers, Sequences, FiniteSets, TLC

VARIABLES
    tasks,            \* st.session_state.tasks: the Task objects
    habits,           \* st.session_state.habits
    fixed,            \* st.session_state.fixed
    day_start,        \* sidebar widgets
    day_end,
    block_minutes,
    break_minutes,
    energy_profile,
    plan,             \* st.session_state.plan (<<>> before the first run: shown like an empty plan)
    pc,               \* "idle" | "build" | "habits" | "assign"
    cur,              \* generate_plan locals
    fixed_sorted,
    slots,
    h,                \* position in time_habits (1-based)
    idx,              \* position in enumerate(slots) (1-based; the code's idx is idx - 1)
    remaining,        \* list of references into tasks
    best,             \* task chosen by the last assignment (0: none yet)
    minutes_at_call,  \* history: Task.minutes of the caller's records when generate_plan was entered
    presses,          \* presses of the "generate plan" button still to come
    calls             \* history: number of generate_plan calls entered

vars == <<tasks, habits, fixed, day_start, day_end, block_minutes, break_minutes,
          energy_profile, plan, pc, cur, fixed_sorted, slots, h, idx, remaining,
          best, minutes_at_call, presses, calls>>

\* ------------------------------------------------------------------ bounds
MaxTime == 3          \* fixed blocks start and end in 0..MaxTime
MaxFixed == 2         \* fixed blocks in the session
MaxTasks == 2         \* tasks in the inbox
MaxRuns == 2          \* presses of the "generate plan" button
MaxHabits == 2        \* habits added to the session
MaxHabitMinutes == 2  \* a habit's minutes are in 0..MaxHabitMinutes

\* ------------------------------------------------------- program constants
MinutesPerDay == 1440     \* timedelta.seconds drops whole days
ShortLimit == 60          \* short_bonus threshold of score()
MorningSlots == 2         \* slot_index <= 2 in score()

None == "None"

\* ------------------------------------------------------------------ helpers
Min(a, b) == IF a <= b THEN a ELSE b
Max(a, b) == IF a >= b THEN a ELSE b

Block(start, end, kind, task_title) ==
    [start |-> start, end |-> end, kind |-> kind, task_title |-> task_title]

ENERGY_ORDER(e) ==
    CASE e = "low" -> 0
      [] e = "medium" -> 1
      [] e = "high" -> 2
      [] OTHER -> 1

\* morning_boost of score(), times 100
morning_boost(task, slot_index) ==
    IF slot_index <= MorningSlots /\ task.priority = 1 THEN 115 ELSE 100

\* score(), times 1000.  task.deadline is <<>> (None) or <<d>>, d the days from
\* today to the deadline: (task.deadline.date() - datetime.now().date()).days
score(task, slot_index, slot_energy) ==
    LET prio == CASE task.priority = 1 -> 30
                  [] task.priority = 2 -> 20
                  [] task.priority = 3 -> 10
        urg == IF task.deadline # <<>> THEN Max(0, 40 - 5 * task.deadline[1]) ELSE 8
        fit == IF ENERGY_ORDER(task.energy) <= ENERGY_ORDER(slot_energy) THEN 12 ELSE 6
        short_bonus == IF task.minutes <= ShortLimit THEN 12 ELSE 10
    IN  prio * 160 + urg * 110 + fit * 100 + short_bonus * 50
          + morning_boost(task, slot_index) * 4

\* mutant of collides: touching intervals collide
collides_closed(a_start, a_end, b_start, b_end) ==
    ~ (a_end < b_start \/ a_start > b_end)

collides(a_start, a_end, b_start, b_end) ==
    ~ (a_end <= b_start \/ a_start >= b_end)

\* sorted(fixed_blocks, key=lambda b: b.start): stable
InsertByStart(s, x) ==
    LET k == Cardinality({i \in 1..Len(s) : s[i].start <= x.start})
    IN  SubSeq(s, 1, k) \o <<x>> \o SubSeq(s, k + 1, Len(s))

\* mutant of sorted: the caller's order is kept
unsorted(s) == s

RECURSIVE sorted(_)
sorted(s) ==
    IF s = <<>> THEN <<>>
    ELSE InsertByStart(sorted(SubSeq(s, 1, Len(s) - 1)), s[Len(s)])

\* the inner for loop over fixed_sorted: index of the first colliding block, 0 if none
FirstCollision(fs, a_start, a_end) ==
    LET hit == {k \in 1..Len(fs) : collides(a_start, a_end, fs[k].start, fs[k].end)}
    IN  IF hit = {} THEN 0 ELSE CHOOSE k \in hit : \A j \in hit : k <= j

\* time_habits = [h for h in habits if h.with_time_block and h.minutes > 0]
IsTimeHabit(hb) == hb.with_time_block /\ hb.minutes > 0
time_habits(hs) == SelectSeq(hs, IsTimeHabit)

\* the inner for loop of the habit insertion: first free work slot that is long enough
FirstFreeWork(sl, minutes) ==
    LET ok == {i \in 1..Len(sl) : /\ sl[i].kind = "work"
                                  /\ sl[i].end - sl[i].start >= minutes
                                  /\ sl[i].task_title = None}
    IN  IF ok = {} THEN 0 ELSE CHOOSE i \in ok : \A j \in ok : i <= j

\* mutant of InsertHabit: the work slot is not shortened
InsertHabitOnly(sl, i, hb) ==
    LET s == sl[i]
        habit_block == Block(s.start, s.start + hb.minutes, "habit", hb.name)
    IN  SubSeq(sl, 1, i - 1) \o <<habit_block, s>> \o SubSeq(sl, i + 1, Len(sl))

\* s.start = habit_block.end; slots.insert(i, habit_block)
InsertHabit(sl, i, hb) ==
    LET s == sl[i]
        habit_block == Block(s.start, s.start + hb.minutes, "habit", hb.name)
        shortened == [s EXCEPT !.start = habit_block.end]
    IN  SubSeq(sl, 1, i - 1) \o <<habit_block, shortened>> \o SubSeq(sl, i + 1, Len(sl))

\* the slot_index handed to score() for the slot at (1-based) position i of
\* slots: the idx of enumerate(slots)
SlotIndexOf(sl, i) == i - 1

\* energy_profile[min(idx, len(energy_profile) - 1)] if energy_profile else "medium"
SlotEnergy(profile, slot_index) ==
    IF profile # <<>> THEN profile[Min(slot_index, Len(profile) - 1) + 1] ELSE "medium"

Titles(ts, rem) == {ts[rem[j]].title : j \in 1..Len(rem)}

\* all(dep not in [x.title for x in remaining] for dep in t.depends_on)
DepsMet(ts, rem, t) ==
    \A d \in 1..Len(t.depends_on) : t.depends_on[d] \notin Titles(ts, rem)

\* mutant of Candidates: dependencies are ignored
AllRemaining(ts, rem) == rem

\* candidates: the dependency-free tasks of remaining, or remaining when there are none
Candidates(ts, rem) ==
    LET IsFree(i) == DepsMet(ts, rem, ts[i])
        free == SelectSeq(rem, IsFree)
    IN  IF free = <<>> THEN rem ELSE free

\* max(candidates, key=...): the first candidate of maximal score
BestOf(ts, cands, slot_index, slot_energy) ==
    LET sc(j) == score(ts[cands[j]], slot_index, slot_energy)
        top == CHOOSE j \in 1..Len(cands) :
                   /\ \A k \in 1..Len(cands) : sc(k) <= sc(j)
                   /\ \A k \in 1..(j - 1) : sc(k) < sc(j)
    IN  cands[top]

\* int((slot.end - slot.start).seconds / 60)
minutes_in_slot(slot) == (slot.end - slot.start) % MinutesPerDay

\* remaining.remove(best): list.remove drops the first element that is `==` to
\* best, and dataclass equality compares the fields
RemoveFirstEqual(ts, rem, b) ==
    LET eq == {j \in 1..Len(rem) : ts[rem[j]] = ts[b]}
        j0 == CHOOSE j \in eq : \A k \in eq : j <= k
    IN  SubSeq(rem, 1, j0 - 1) \o SubSeq(rem, j0 + 1, Len(rem))

\* ------------------------------------------------------------ initial states
SeqsUpTo(S, n) == UNION {[1..k -> S] : k \in 0..n}

Task(title, minutes, priority, energy, deadline, depends_on) ==
    [title |-> title, minutes |-> minutes, priority |-> priority, energy |-> energy,
     deadline |-> deadline, depends_on |-> depends_on]
FixedBlock(start, end, title) == [start |-> start, end |-> end, title |-> title]
Habit(name, with_time_block, minutes) ==
    [name |-> name, with_time_block |-> with_time_block, minutes |-> minutes]

\* priority, energy, deadline and minutes of the tasks drawn
TaskKinds == {<<1, "high", <<>>, 3>>, <<3, "low", <<>>, 61>>, <<2, "medium", <<1>>, 2>>}
TaskDom ==
    {Task(t, k[4], k[1], k[2], k[3], d) :
        t \in {"A", "B"}, k \in TaskKinds, d \in {<<>>, <<"A">>, <<"B">>}}

\* any start and end, also end <= start: the form does not compare them;
\* the k-th fixed block of the session is titled "F<k>"
FixedTitle(k) == <<"F1", "F2", "F3", "F4">>[k]
FixedTimes == SeqsUpTo((0..MaxTime) \X (0..MaxTime), MaxFixed)
FixedOf(ts) == [k \in 1..Len(ts) |-> FixedBlock(ts[k][1], ts[k][2], FixedTitle(k))]

\* st.session_state.habits starts with the binary habit (line 247); the k-th
\* habit added is named "h<k>"
DefaultHabit == Habit("Dni bez szluga", FALSE, 5)
HabitName(k) == <<"h1", "h2", "h3", "h4">>[k]
HabitSettings == SeqsUpTo(BOOLEAN \X (0..MaxHabitMinutes), MaxHabits)
HabitsOf(hs) == <<DefaultHabit>> \o [k \in 1..Len(hs) |-> Habit(HabitName(k), hs[k][1], hs[k][2])]

Locals ==
    /\ plan = <<>>
    /\ calls = 0
    /\ pc = "idle"
    /\ cur = 0
    /\ fixed_sorted = <<>>
    /\ slots = <<>>
    /\ h = 1
    /\ idx = 1
    /\ remaining = <<>>
    /\ best = 0
    /\ minutes_at_call = <<>>

\* sessions whose inbox varies; the day is 0..5 and the button is pressed MaxRuns times
Init ==
    /\ tasks \in SeqsUpTo(TaskDom, MaxTasks)
    /\ habits \in {<<DefaultHabit>>, <<DefaultHabit, Habit("h1", TRUE, 1)>>}
    /\ fixed = <<>>
    /\ day_start = 0
    /\ day_end = 5
    /\ block_minutes \in {1, 2}
    /\ break_minutes \in {0, 1}
    /\ energy_profile = <<"high", "low">>
    /\ presses = MaxRuns
    /\ Locals

\* sessions whose habits vary
InitHabits ==
    /\ tasks \in {<<>>, <<Task("A", 3, 1, "high", <<>>, <<>>)>>}
    /\ habits \in {HabitsOf(hs) : hs \in HabitSettings}
    /\ fixed \in {<<>>, <<FixedBlock(1, 2, "F1")>>, <<FixedBlock(2, 4, "F1")>>}
    /\ day_start = 0
    /\ day_end = 5
    /\ block_minutes \in {1, 3}
    /\ break_minutes \in {0, 1}
    /\ energy_profile \in {<<>>, <<"low">>}
    /\ presses = 1
    /\ Locals

\* sessions whose fixed blocks and day vary
InitBuild ==
    /\ tasks = <<Task("A", 61, 1, "high", <<>>, <<>>)>>
    /\ habits = <<DefaultHabit, Habit("h1", TRUE, 1)>>
    /\ fixed \in {FixedOf(ts) : ts \in FixedTimes}
    /\ day_start \in {0, 1}
    /\ day_end \in {1, MaxTime + 1}
    /\ block_minutes \in {2, 3}
    /\ break_minutes \in {0, 1}
    /\ energy_profile = <<>>
    /\ presses = 1
    /\ Locals
\* sessions whose fixed blocks vary, an empty inbox and the day 0..MaxTime + 1
InitLoop ==
    /\ tasks = <<>>
    /\ habits = <<DefaultHabit, Habit("h1", TRUE, 1)>>
    /\ fixed \in {FixedOf(ts) : ts \in FixedTimes}
    /\ day_start = 0
    /\ day_end = MaxTime + 1
    /\ block_minutes \in {2, 3}
    /\ break_minutes \in {0, 1}
    /\ energy_profile = <<>>
    /\ presses = 1
    /\ Locals

\* ------------------------------------------------------------------ actions
\* "Wygeneruj plan" pressed: generate_plan is entered (lines 110-115)
Generate ==
    /\ pc = "idle"
    /\ presses > 0
    /\ cur' = day_start
    /\ slots' = <<>>
    /\ fixed_sorted' = sorted(fixed)
    /\ minutes_at_call' = [i \in 1..Len(tasks) |-> tasks[i].minutes]
    /\ presses' = presses - 1
    /\ calls' = calls + 1
    /\ pc' = "build"
    /\ UNCHANGED <<tasks, habits, fixed, day_start, day_end, block_minutes, break_minutes,
                   energy_profile, plan, h, idx, remaining, best>>

\* one iteration of `while cur < end_dt` (lines 117-140)
BuildStep ==
    /\ pc = "build"
    /\ cur < day_end
    /\ LET next_end == cur + block_minutes
           c == FirstCollision(fixed_sorted, cur, next_end)
       IN  IF c # 0
           THEN /\ slots' = Append(slots, Block(fixed_sorted[c].start, fixed_sorted[c].end,
                                                "fixed", fixed_sorted[c].title))
                /\ cur' = fixed_sorted[c].end
           ELSE IF break_minutes > 0 /\ next_end < day_end
           THEN /\ slots' = slots \o <<Block(cur, next_end, "work", None),
                                       Block(next_end, next_end + break_minutes, "break", None)>>
                /\ cur' = next_end + break_minutes
           ELSE /\ slots' = Append(slots, Block(cur, next_end, "work", None))
                /\ cur' = next_end
    /\ UNCHANGED <<tasks, habits, fixed, day_start, day_end, block_minutes, break_minutes,
                   energy_profile, plan, pc, fixed_sorted, h, idx, remaining, best,
                   minutes_at_call, presses, calls>>

\* the while loop ends; time_habits is built (lines 117, 143)
BuildExit ==
    /\ pc = "build"
    /\ ~ (cur < day_end)
    /\ pc' = "habits"
    /\ h' = 1
    /\ UNCHANGED <<tasks, habits, fixed, day_start, day_end, block_minutes, break_minutes,
                   energy_profile, plan, cur, fixed_sorted, slots, idx, remaining, best,
                   minutes_at_call, presses, calls>>

\* one iteration of `for h in time_habits` (lines 144-159)
HabitStep ==
    /\ pc = "habits"
    /\ h <= Len(time_habits(habits))
    /\ LET hb == time_habits(habits)[h]
           i == FirstFreeWork(slots, hb.minutes)
       IN  slots' = IF i # 0 THEN InsertHabit(slots, i, hb) ELSE slots
    /\ h' = h + 1
    /\ UNCHANGED <<tasks, habits, fixed, day_start, day_end, block_minutes, break_minutes,
                   energy_profile, plan, pc, cur, fixed_sorted, idx, remaining, best,
                   minutes_at_call, presses, calls>>

\* the habit loop ends; remaining = tasks.copy() (line 162)
HabitExit ==
    /\ pc = "habits"
    /\ h > Len(time_habits(habits))
    /\ remaining' = [i \in 1..Len(tasks) |-> i]
    /\ idx' = 1
    /\ best' = 0
    /\ pc' = "assign"
    /\ UNCHANGED <<tasks, habits, fixed, day_start, day_end, block_minutes, break_minutes,
                   energy_profile, plan, cur, fixed_sorted, slots, h, minutes_at_call, presses, calls>>

\* one iteration of `for idx, slot in enumerate(slots)` (lines 163-183)
AssignStep ==
    /\ pc = "assign"
    /\ idx <= Len(slots)
    /\ IF slots[idx].kind # "work" \/ remaining = <<>>
       THEN UNCHANGED <<tasks, slots, remaining, best>>
       ELSE LET slot == slots[idx]
                slot_energy == SlotEnergy(energy_profile, idx - 1)
                candidates == Candidates(tasks, remaining)
                b == BestOf(tasks, candidates, SlotIndexOf(slots, idx), slot_energy)
                left == tasks[b].minutes - minutes_in_slot(slot)
                decremented == [tasks EXCEPT ![b].minutes = left]
            IN  /\ best' = b
                /\ slots' = [slots EXCEPT ![idx].task_title = tasks[b].title]
                /\ tasks' = decremented
                /\ remaining' = IF left <= 0
                                THEN RemoveFirstEqual(decremented, remaining, b)
                                ELSE remaining
    /\ idx' = idx + 1
    /\ UNCHANGED <<habits, fixed, day_start, day_end, block_minutes, break_minutes,
                   energy_profile, plan, pc, cur, fixed_sorted, h, minutes_at_call, presses, calls>>

\* return slots; st.session_state.plan = plan (lines 185, 345)
Return ==
    /\ pc = "assign"
    /\ idx > Len(slots)
    /\ plan' = slots
    /\ pc' = "idle"
    /\ UNCHANGED <<tasks, habits, fixed, day_start, day_end, block_minutes, break_minutes,
                   energy_profile, cur, fixed_sorted, slots, h, idx, remaining, best,
                   minutes_at_call, presses, calls>>

Next ==
    \/ Generate
    \/ BuildStep
    \/ BuildExit
    \/ HabitStep
    \/ HabitExit
    \/ AssignStep
    \/ Return

Spec == Init /\ [][Next]_vars
SpecHabits == InitHabits /\ [][Next]_vars
SpecBuild == InitBuild /\ [][Next]_vars
\* the script runs generate_plan to its end: no step of it waits for anything
FairLoop == InitLoop /\ [][Next]_vars /\ WF_vars(Next)

\* ------------------------------------------------------- properties: helpers
Range(s) == {s[i] : i \in 1..Len(s)}

\* the while loop has just ended: slots is what the slot-building loop produced
AfterBuild == pc = "habits" /\ h = 1

\* generate_plan has returned and its result is stored in the session
Returned == pc = "idle" /\ calls > 0

Contiguous(sl) == \A i \in 1..(Len(sl) - 1) : sl[i + 1].start = sl[i].end

NonOverlapping(sl) ==
    \A i, j \in 1..Len(sl) :
        i < j => ~ collides(sl[i].start, sl[i].end, sl[j].start, sl[j].end)

Ordered(sl) == \A i \in 1..(Len(sl) - 1) : sl[i].start <= sl[i + 1].start

WellFormedFixed == \A k \in 1..Len(fixed) : fixed[k].start <= fixed[k].end

\* ------------------------------------------------------------------ C1
\* C1 (coverage): when day_start < day_end, the blocks the slot-building loop
\* produced are contiguous and pairwise non-overlapping, the first starts at
\* day_start and the last ends at day_end.
C1_Coverage ==
    (AfterBuild /\ day_start < day_end) =>
        /\ slots # <<>>
        /\ slots[1].start = day_start
        /\ slots[Len(slots)].end = day_end
        /\ Contiguous(slots)
        /\ NonOverlapping(slots)

\* ------------------------------------------------------------------ C2
\* C2 (fixed-block priority): every fixed block f with
\* day_start <= f.start < f.end <= day_end is in the returned plan as a block of
\* kind fixed with f's start, end and title, and no work or break block of the
\* plan overlaps [f.start, f.end).
C2_FixedPriority ==
    Returned =>
        \A k \in 1..Len(fixed) :
            LET f == fixed[k]
            IN  (day_start <= f.start /\ f.start < f.end /\ f.end <= day_end) =>
                    /\ \E i \in 1..Len(plan) :
                           plan[i] = Block(f.start, f.end, "fixed", f.title)
                    /\ \A i \in 1..Len(plan) :
                           plan[i].kind \in {"work", "break"} =>
                               ~ collides(plan[i].start, plan[i].end, f.start, f.end)

\* ------------------------------------------------------------------ C6
\* C6 (capping at day end): every work and break block the slot-building loop
\* emitted ends at or before day_end; a window shorter than block_minutes with
\* no fixed blocks yields the single work block [day_start, day_end); a window
\* with day_start >= day_end yields no blocks.
C6_CappedAtDayEnd ==
    AfterBuild =>
        /\ \A i \in 1..Len(slots) :
               slots[i].kind \in {"work", "break"} => slots[i].end <= day_end
        /\ (fixed = <<>> /\ day_start < day_end /\ day_end - day_start < block_minutes) =>
               slots = <<Block(day_start, day_end, "work", None)>>
        /\ day_start >= day_end => slots = <<>>

\* ------------------------------------------------------------------ C9
\* C9 as stated (chronological order): the returned plan lists its blocks in
\* non-decreasing order of start time, for any list of fixed blocks.
C9_OrderedAnyFixed == Returned => Ordered(plan)

\* C9 as amended: when every fixed block has start <= end, the blocks are in
\* non-decreasing order of start time in the returned plan and throughout the
\* run (after every loop iteration and every habit insertion).
C9_Ordered == WellFormedFixed => (Ordered(slots) /\ Ordered(plan))

\* a returned plan with two fixed blocks that overlap one another, one of them
\* starting before day_start, and an inserted habit
C9_Witness ==
    /\ Returned
    /\ WellFormedFixed
    /\ \E i \in 1..Len(plan) : plan[i].kind = "habit"
    /\ \E i, j \in 1..Len(plan) :
           /\ i < j
           /\ plan[i].kind = "fixed" /\ plan[j].kind = "fixed"
           /\ plan[i].start < day_start
           /\ collides(plan[i].start, plan[i].end, plan[j].start, plan[j].end)

\* ------------------------------------------------------------------ C10
\* the fixed blocks are told apart by their titles (FixedTitle)
EmittedOnce ==
    \A k \in 1..Len(fixed) :
        Cardinality({i \in 1..Len(slots) :
                        slots[i].kind = "fixed" /\ slots[i].task_title = fixed[k].title}) <= 1

\* C10 (termination of the slot-building loop): every iteration of the while
\* loop strictly increases the cursor, each fixed block is emitted at most
\* once, and the loop ends.
C10_Termination ==
    /\ [][(pc = "build" /\ cur < day_end) => cur' > cur]_vars
    /\ [](EmittedOnce)
    /\ (pc = "build") ~> (pc = "habits")

\* the loop has ended after emitting a colliding fixed block, a block whose end
\* is not after its start, and a work block
C10_Witness ==
    /\ AfterBuild
    /\ \E i \in 1..Len(slots) : slots[i].kind = "work"
    /\ \E i, j \in 1..Len(slots) :
           /\ i # j
           /\ slots[i].kind = "fixed" /\ slots[i].start < slots[i].end
           /\ slots[j].kind = "fixed" /\ slots[j].end <= slots[j].start

\* ------------------------------------------------------------------ C3
\* C3 (working copy): when generate_plan has returned, every Task of the
\* caller's list has the minutes it had when the call was made.
C3_WorkingCopy ==
    Returned => \A i \in 1..Len(tasks) : tasks[i].minutes = minutes_at_call[i]

\* ------------------------------------------------------------------ C4
\* the next iteration of the assignment loop gives its work slot a task
Assigning ==
    /\ pc = "assign"
    /\ idx <= Len(slots)
    /\ slots[idx].kind = "work"
    /\ remaining # <<>>

\* C4 (monotonic consumption): during the assignment pass no task's remaining
\* minutes increases, an assignment lowers the chosen task's minutes by the
\* duration of the slot, a task whose minutes are <= 0 is not in the remaining
\* pool, and so no slot is given to a task that is already complete.
C4_MonotonicConsumption ==
    [][ /\ \A i \in 1..Len(tasks) : tasks'[i].minutes <= tasks[i].minutes
        /\ pc = "assign" =>
               \A j \in 1..Len(remaining) : tasks[remaining[j]].minutes > 0
        /\ Assigning =>
               /\ tasks'[best'].minutes =
                      tasks[best'].minutes - (slots[idx].end - slots[idx].start)
               /\ slots'[idx].task_title = tasks[best'].title
               /\ tasks'[best'].minutes <= 0 => best' \notin Range(remaining')
      ]_vars

\* ------------------------------------------------------------------ C5
\* task i has no dependency title that is the title of a task of the pool rem
DependencyFree(i, rem) ==
    \A d \in Range(tasks[i].depends_on) :
        \A j \in 1..Len(rem) : tasks[rem[j]].title # d

\* C5 (dependency eligibility with fallback): every work slot reached with a
\* non-empty pool gets a task of the pool; the task has no dependency on a task
\* still in the pool, unless every task of the pool has one.
C5_DependencyEligibility ==
    [][ Assigning =>
            /\ idx' = idx + 1
            /\ best' \in Range(remaining)
            /\ slots'[idx].task_title = tasks[best'].title
            /\ \/ DependencyFree(best', remaining)
               \/ \A j \in 1..Len(remaining) : ~ DependencyFree(remaining[j], remaining)
      ]_vars

\* a slot went to a dependency-free task although a task of higher priority,
\* which depends on it, is in the pool; both are still in the pool
C5_Witness ==
    /\ pc = "assign"
    /\ best # 0
    /\ best \in Range(remaining)
    /\ tasks[best].depends_on = <<>>
    /\ \E j \in 1..Len(remaining) :
           /\ remaining[j] # best
           /\ tasks[remaining[j]].priority < tasks[best].priority
           /\ tasks[best].title \in Range(tasks[remaining[j]].depends_on)

\* ------------------------------------------------------------------ C7
\* number of work blocks before position i of sl: the work-slot position of sl[i]
WorkPosition(sl, i) == Cardinality({j \in 1..(i - 1) : sl[j].kind = "work"})

\* C7 (morning boost by work-slot position): when a work block is scored, the
\* morning term of a task is 1.15 exactly when the task has priority 1 and the
\* block is the first, second or third work block of the plan.
C7_MorningBoostByWorkPosition ==
    Assigning =>
        \A j \in 1..Len(remaining) :
            LET t == tasks[remaining[j]]
            IN  morning_boost(t, SlotIndexOf(slots, idx)) =
                    IF t.priority = 1 /\ WorkPosition(slots, idx) <= 2 THEN 115 ELSE 100

\* ------------------------------------------------------------------ C8
\* the next iteration of the habit loop
InsertingHabit == pc = "habits" /\ h <= Len(time_habits(habits))

\* C8 (habit insertion): the habits with a time block and minutes > 0 are
\* taken in list order; each goes before the first work block that is free and
\* long enough, as a habit block [w.start, w.start + minutes) with the habit's
\* name, and that work block then starts where the habit block ends; no other
\* block changes; without such a work block nothing changes.
C8_HabitInsertion ==
    [][ InsertingHabit =>
            LET hb == time_habits(habits)[h]
                free == {i \in 1..Len(slots) :
                            /\ slots[i].kind = "work"
                            /\ slots[i].end - slots[i].start >= hb.minutes
                            /\ slots[i].task_title = None}
            IN  /\ hb.with_time_block /\ hb.minutes > 0
                /\ \A k \in 1..Len(habits) :
                       ~ (habits[k].with_time_block /\ habits[k].minutes > 0) =>
                           \A i \in 1..Len(slots') : slots'[i].task_title # habits[k].name
                /\ free = {} => slots' = slots
                /\ free # {} =>
                       LET i == CHOOSE i \in free : \A j \in free : i <= j
                           w == slots[i]
                       IN  /\ Len(slots') = Len(slots) + 1
                           /\ slots'[i] = Block(w.start, w.start + hb.minutes, "habit", hb.name)
                           /\ slots'[i + 1] = Block(w.start + hb.minutes, w.end, "work", None)
                           /\ \A j \in 1..(i - 1) : slots'[j] = slots[j]
                           /\ \A j \in (i + 1)..Len(slots) : slots'[j + 1] = slots[j]
      ]_vars

\* both time-block habits were handled: the first was inserted before a work
\* block that it shortened, the second found no work block long enough
C8_Witness ==
    /\ pc = "habits"
    /\ h = 3
    /\ Len(time_habits(habits)) = 2
    /\ Cardinality({i \in 1..Len(slots) : slots[i].kind = "habit"}) = 1
    /\ \E i \in 1..(Len(slots) - 1) :
           /\ slots[i].kind = "habit"
           /\ slots[i + 1].kind = "work"
           /\ slots[i + 1].start = slots[i].end

====
